---- MODULE Spec2Model ----
(***************************************************************************)
(* Model of GPT.py: the 2D hard-disk initial-configuration generator.      *)
(*                                                                         *)
(* Python floats are modelled as fixed-point numbers: the integer v stands *)
(* for the real v / Scale, and every float operation rounds its result to  *)
(* the nearest representable value, as IEEE arithmetic does (at a much     *)
(* finer resolution).  Particle counts, loop indices and seeds are plain   *)
(* integers.                                                               *)
(***************************************************************************)
EXTENDS Integers, Sequences, FiniteSets, TLC

VARIABLES
    pc,         \* where the run stands: "idle", "called", or a place in main
    boxCall,    \* the call of compute_box_length_2d made, with its outcome
    sqCall,     \* the call of build_square_lattice_2d made, with its result
    hexCall,    \* the call of build_hex_lattice_2d made, with its locals and result
    hexAgain,   \* a second call of build_hex_lattice_2d with the same arguments
    lattice,    \* main: the lattice kind
    boxL,       \* main: L
    positions,  \* main: positions
    calls,      \* main: the functions called so far, in order
    stdout,     \* main: the lines printed so far, in order
    error       \* main: the exception that ended the run, or "" for none

vars == <<pc, boxCall, sqCall, hexCall, hexAgain, lattice, boxL, positions,
          calls, stdout, error>>

----------------------------------------------------------------------------
(* Bounds of the model *)

MaxN == 5
MaxLSteps == 5
MaxJitterSteps == 2
MaxSeed == 1
MaxEntropy == 1

(* Fixed-point resolution standing for the float type *)
Scale == 100

(* seed=None *)
None == -1

(* Program constants, in fixed point *)
Pi == 314
Pad == 50
DemoN == 100
DemoEta == 68
DemoSigma == 30
DemoJitter == 0
DemoSeed == 1

----------------------------------------------------------------------------
(* Input sets *)

BoxNs == (0 - 2)..MaxN
Etas == {0 - 50, 0, 25, 50, 68, 90}
BoxSigmas == {0 - 30, 0, 30, 50, 100}
Ns == 0..MaxN
Ls == {50 * k : k \in 1..MaxLSteps}
Sigmas == {30, 50, 100}
Jitters == {20 * k : k \in 0..MaxJitterSteps}
Seeds == {None} \cup (0..MaxSeed)
Entropies == 0..MaxEntropy
LatticeKinds == {"hex", "square", "cubic"}

----------------------------------------------------------------------------
(* Float arithmetic *)

Min(x, y) == IF x <= y THEN x ELSE y

Abs(x) == IF x < 0 THEN 0 - x ELSE x

\* n / d rounded to the nearest integer
RoundDiv(n, d) ==
    LET nn == IF d < 0 THEN 0 - n ELSE n
        dd == IF d < 0 THEN 0 - d ELSE d
    IN  (2 * nn + dd) \div (2 * dd)

\* x * y of two floats
FMul(x, y) == RoundDiv(x * y, Scale)

\* x / y of two floats, y # 0
FDiv(x, y) == RoundDiv(x * Scale, y)

RECURSIVE SqrtSearch(_, _, _)
\* the largest r in lo..hi with r * r <= n
SqrtSearch(n, lo, hi) ==
    IF lo >= hi THEN lo
    ELSE LET mid == (lo + hi + 1) \div 2
         IN  IF mid * mid <= n THEN SqrtSearch(n, mid, hi)
             ELSE SqrtSearch(n, lo, mid - 1)

\* math.sqrt(x) of a float x >= 0
FSqrt(x) ==
    LET n == x * Scale
        r == SqrtSearch(n, 0, Min(n, 40000))
    IN  IF n - r * r > r THEN r + 1 ELSE r

\* math.floor(x) of a float, as an integer
Floor(x) == x \div Scale

\* a variant without the wrap
WrapNone(p, L) == p

\* positions % L
Wrap(p, L) == [k \in 1..Len(p) |-> <<p[k][1] % L, p[k][2] % L>>]

\* coords[:N], N >= 0
Take(coords, N) == SubSeq(coords, 1, Min(N, Len(coords)))

----------------------------------------------------------------------------
(* 1) compute_box_length_2d *)

\* a variant with sigma in place of sigma**2
BoxLengthUnsquared(N, eta, sigma) ==
    LET num == FMul(N * Pi, sigma)
        den == 4 * eta
    IN  IF den = 0
        THEN [status |-> "ZeroDivisionError", value |-> 0]
        ELSE LET q == FDiv(num, den)
             IN  IF q < 0
                 THEN [status |-> "ValueError", value |-> 0]
                 ELSE [status |-> "returned", value |-> FSqrt(q)]

\* a variant with eta in place of 4.0 * eta
BoxLengthNoFour(N, eta, sigma) ==
    LET num == FMul(N * Pi, FMul(sigma, sigma))
        den == eta
    IN  IF den = 0
        THEN [status |-> "ZeroDivisionError", value |-> 0]
        ELSE LET q == FDiv(num, den)
             IN  IF q < 0
                 THEN [status |-> "ValueError", value |-> 0]
                 ELSE [status |-> "returned", value |-> FSqrt(q)]

compute_box_length_2d(N, eta, sigma) ==
    LET num == FMul(N * Pi, FMul(sigma, sigma))
        den == 4 * eta
    IN  IF den = 0
        THEN [status |-> "ZeroDivisionError", value |-> 0]
        ELSE LET q == FDiv(num, den)
             IN  IF q < 0
                 THEN [status |-> "ValueError", value |-> 0]
                 ELSE [status |-> "returned", value |-> FSqrt(q)]

----------------------------------------------------------------------------
(* 2) build_hex_lattice_2d *)

\* a variant that ignores the seed
RngInitShared(seed, entropy) == entropy

\* the generator's state after default_rng(seed): from the seed, or from the
\* operating system's entropy when seed is None
RngInit(seed, entropy) == IF seed = None THEN entropy ELSE seed % 16

\* the generator's next state; state / 16 is its next double in [0, 1)
RngNext(s) == (5 * s + 3) % 16

\* a variant drawing from twice the width
UniformWide(low, high, s) == low + RoundDiv(2 * (high - low) * s, 16)

\* one draw of rng.uniform(low, high): low + (high - low) * random()
Uniform(low, high, s) == low + ((high - low) * s) \div 16

RowHeight(a) == FMul(FDiv(FSqrt(3 * Scale), 2 * Scale), a)

\* a variant shifting the even rows
XOffsetEven(iy, a) == IF iy % 2 = 0 THEN FMul(Scale \div 2, a) ELSE 0

XOffset(iy, a) == IF iy % 2 = 1 THEN FMul(Scale \div 2, a) ELSE 0

RECURSIVE HexRowPast(_, _, _, _, _, _, _)
\* a variant that ends a row at the first x > L
HexRowPast(coords, N, L, a, x_offset, y, ix) ==
    LET x == ix * a + x_offset
    IN  IF x > L THEN coords
        ELSE LET c2 == Append(coords, <<x, y>>)
             IN  IF Len(c2) >= N THEN c2
                 ELSE HexRowPast(c2, N, L, a, x_offset, y, ix + 1)

RECURSIVE HexRow(_, _, _, _, _, _, _)
\* the inner loop, lines 33-40
HexRow(coords, N, L, a, x_offset, y, ix) ==
    LET x == ix * a + x_offset
    IN  IF x >= L THEN coords
        ELSE LET c2 == Append(coords, <<x, y>>)
             IN  IF Len(c2) >= N THEN c2
                 ELSE HexRow(c2, N, L, a, x_offset, y, ix + 1)

RECURSIVE HexRows(_, _, _, _, _, _)
\* the outer loop, lines 27-41
HexRows(coords, N, L, a, row_height, iy) ==
    IF ~(Len(coords) < N) THEN coords
    ELSE LET y == iy * row_height
         IN  IF y >= L THEN coords
             ELSE HexRows(HexRow(coords, N, L, a, XOffset(iy, a), y, 0),
                          N, L, a, row_height, iy + 1)

RECURSIVE AddJitter(_, _, _, _)
\* positions += rng.uniform(-jitter, jitter, size=positions.shape), from point k
\* on, the generator in state s: one draw per coordinate, in row-major order
AddJitter(p, k, jitter, s) ==
    IF k > Len(p) THEN <<>>
    ELSE LET s1 == RngNext(s)
             s2 == RngNext(s1)
         IN  <<(<<p[k][1] + Uniform(0 - jitter, jitter, s1),
                  p[k][2] + Uniform(0 - jitter, jitter, s2)>>)>>
             \o AddJitter(p, k + 1, jitter, s2)

\* the locals and the result of one call; entropy is what the operating
\* system hands to default_rng(None)
build_hex_lattice_2d(N, L, sigma, jitter, seed, entropy) ==
    LET rng == RngInit(seed, entropy)
        a == sigma
        row_height == RowHeight(a)
        coords == Take(HexRows(<<>>, N, L, a, row_height, 0), N)
        jittered == IF jitter > 0 THEN AddJitter(coords, 1, jitter, rng)
                    ELSE coords
    IN  [coords |-> coords, jittered |-> jittered,
         positions |-> Wrap(jittered, L)]

----------------------------------------------------------------------------
(* 3) build_square_lattice_2d *)

RECURSIVE SquareRowSwapped(_, _, _, _, _, _)
\* a variant with x and y exchanged
SquareRowSwapped(coords, N, a, nx, iy, ix) ==
    IF ix >= nx THEN [coords |-> coords, returned |-> FALSE]
    ELSE LET c2 == Append(coords, <<iy * a, ix * a>>)
         IN  IF Len(c2) >= N THEN [coords |-> c2, returned |-> TRUE]
             ELSE SquareRowSwapped(c2, N, a, nx, iy, ix + 1)

RECURSIVE SquareRow(_, _, _, _, _, _)
\* the inner loop, lines 60-64; returned: the return of line 64 was taken
SquareRow(coords, N, a, nx, iy, ix) ==
    IF ix >= nx THEN [coords |-> coords, returned |-> FALSE]
    ELSE LET c2 == Append(coords, <<ix * a, iy * a>>)
         IN  IF Len(c2) >= N THEN [coords |-> c2, returned |-> TRUE]
             ELSE SquareRow(c2, N, a, nx, iy, ix + 1)

RECURSIVE SquareRows(_, _, _, _, _, _)
\* the outer loop, lines 58-65
SquareRows(coords, N, a, nx, ny, iy) ==
    IF iy >= ny THEN Take(coords, N)
    ELSE LET r == SquareRow(coords, N, a, nx, iy, 0)
         IN  IF r.returned THEN r.coords
             ELSE SquareRows(r.coords, N, a, nx, ny, iy + 1)

build_square_lattice_2d(N, L, sigma) ==
    LET a == sigma + Pad
        nx == Floor(FDiv(L, a))
        ny == Floor(FDiv(L, a))
    IN  Wrap(SquareRows(<<>>, N, a, nx, ny, 0), L)

----------------------------------------------------------------------------
(* 5) main: the branch of lines 121-128 *)

\* a variant that takes every kind but "hex" for "square"
DispatchDefaultSquare(kind) == IF kind = "hex" THEN "hex" ELSE "square"

Dispatch(kind) ==
    IF kind = "hex" THEN "hex"
    ELSE IF kind = "square" THEN "square"
    ELSE "raise"

----------------------------------------------------------------------------
(* The state machine: one call of a function of the module, or a run of main *)

NoCall == [fn |-> "none"]

Init ==
    /\ pc = "idle"
    /\ boxCall = NoCall
    /\ sqCall = NoCall
    /\ hexCall = NoCall
    /\ hexAgain = NoCall
    /\ lattice = ""
    /\ boxL = 0
    /\ positions = <<>>
    /\ calls = <<>>
    /\ stdout = <<>>
    /\ error = ""

mainVars == <<lattice, boxL, positions, calls, stdout, error>>

CallBoxLength(N, eta, sigma) ==
    /\ pc = "idle"
    /\ pc' = "called"
    /\ boxCall' = [fn |-> "compute_box_length_2d", N |-> N, eta |-> eta,
                   sigma |-> sigma, out |-> compute_box_length_2d(N, eta, sigma)]
    /\ UNCHANGED <<sqCall, hexCall, hexAgain, mainVars>>

CallSquare(N, L, sigma) ==
    /\ pc = "idle"
    /\ pc' = "called"
    /\ sqCall' = [fn |-> "build_square_lattice_2d", N |-> N, L |-> L,
                  sigma |-> sigma,
                  positions |-> build_square_lattice_2d(N, L, sigma)]
    /\ UNCHANGED <<boxCall, hexCall, hexAgain, mainVars>>

CallHex(N, L, sigma, jitter, seed, entropy) ==
    /\ pc = "idle"
    /\ pc' = "called"
    /\ hexCall' = [fn |-> "build_hex_lattice_2d", N |-> N, L |-> L,
                   sigma |-> sigma, jitter |-> jitter, seed |-> seed,
                   out |-> build_hex_lattice_2d(N, L, sigma, jitter, seed, entropy)]
    /\ UNCHANGED <<boxCall, sqCall, hexAgain, mainVars>>

\* the same call once more
CallHexAgain(entropy) ==
    /\ pc = "called"
    /\ hexCall # NoCall
    /\ hexAgain = NoCall
    /\ hexAgain' = [hexCall EXCEPT !.out =
                      build_hex_lattice_2d(hexCall.N, hexCall.L, hexCall.sigma,
                                           hexCall.jitter, hexCall.seed, entropy)]
    /\ UNCHANGED <<pc, boxCall, sqCall, hexCall, mainVars>>

\* lines 109-114: the parameters, the lattice kind among them
MainStart(kind) ==
    /\ pc = "idle"
    /\ pc' = "main_box"
    /\ lattice' = kind
    /\ UNCHANGED <<boxCall, sqCall, hexCall, hexAgain, boxL, positions, calls,
                   stdout, error>>

\* line 117
MainComputeBox ==
    /\ pc = "main_box"
    /\ LET r == compute_box_length_2d(DemoN, DemoEta, DemoSigma)
       IN  /\ calls' = Append(calls, "compute_box_length_2d")
           /\ IF r.status = "returned"
              THEN pc' = "main_print_box" /\ boxL' = r.value /\ error' = error
              ELSE pc' = "raised" /\ boxL' = boxL /\ error' = r.status
    /\ UNCHANGED <<boxCall, sqCall, hexCall, hexAgain, lattice, positions, stdout>>

\* line 118
MainPrintBox ==
    /\ pc = "main_print_box"
    /\ pc' = "main_build"
    /\ stdout' = Append(stdout, "Box length L")
    /\ UNCHANGED <<boxCall, sqCall, hexCall, hexAgain, lattice, boxL, positions,
                   calls, error>>

\* lines 121-123
MainBuildHex ==
    /\ pc = "main_build"
    /\ Dispatch(lattice) = "hex"
    /\ pc' = "main_print_positions"
    /\ calls' = Append(calls, "build_hex_lattice_2d")
    /\ positions' = build_hex_lattice_2d(DemoN, boxL, DemoSigma, DemoJitter,
                                         DemoSeed, 0).positions
    /\ UNCHANGED <<boxCall, sqCall, hexCall, hexAgain, lattice, boxL, stdout, error>>

\* lines 124-126
MainBuildSquare ==
    /\ pc = "main_build"
    /\ Dispatch(lattice) = "square"
    /\ pc' = "main_print_positions"
    /\ calls' = Append(calls, "build_square_lattice_2d")
    /\ positions' = build_square_lattice_2d(DemoN, boxL, DemoSigma)
    /\ UNCHANGED <<boxCall, sqCall, hexCall, hexAgain, lattice, boxL, stdout, error>>

\* lines 127-128
MainRaise ==
    /\ pc = "main_build"
    /\ Dispatch(lattice) = "raise"
    /\ pc' = "raised"
    /\ error' = "ValueError: lattice must be 'hex' or 'square'"
    /\ UNCHANGED <<boxCall, sqCall, hexCall, hexAgain, lattice, boxL, positions,
                   calls, stdout>>

\* lines 131-133
MainPrintPositions ==
    /\ pc = "main_print_positions"
    /\ pc' = "main_plot"
    /\ stdout' = stdout \o <<"First 10 positions:">>
                   \o [i \in 1..Min(10, Len(positions)) |-> "position"]
    /\ UNCHANGED <<boxCall, sqCall, hexCall, hexAgain, lattice, boxL, positions,
                   calls, error>>

\* line 136
MainPlot ==
    /\ pc = "main_plot"
    /\ pc' = "done"
    /\ calls' = Append(calls, "plot_disks_pbc")
    /\ UNCHANGED <<boxCall, sqCall, hexCall, hexAgain, lattice, boxL, positions,
                   stdout, error>>

Next ==
    \/ \E N \in BoxNs, eta \in Etas, sigma \in BoxSigmas :
          CallBoxLength(N, eta, sigma)
    \/ \E N \in Ns, L \in Ls, sigma \in Sigmas : CallSquare(N, L, sigma)
    \/ \E N \in Ns, L \in Ls, sigma \in Sigmas, jitter \in Jitters,
          seed \in Seeds, entropy \in Entropies :
          CallHex(N, L, sigma, jitter, seed, entropy)
    \/ \E entropy \in Entropies : CallHexAgain(entropy)
    \/ \E kind \in LatticeKinds : MainStart(kind)
    \/ MainComputeBox
    \/ MainPrintBox
    \/ MainBuildHex
    \/ MainBuildSquare
    \/ MainRaise
    \/ MainPrintPositions
    \/ MainPlot

Spec == Init /\ [][Next]_vars

----------------------------------------------------------------------------
(* Properties of compute_box_length_2d *)

BoxCalled == boxCall.fn = "compute_box_length_2d"

BoxFaulted == boxCall.out.status # "returned"

\* L * L = N * pi * sigma^2 / (4 * eta) to within tol units of the resolution
\* in L, both sides multiplied by 4 * eta
BoxWithin(L, N, eta, sigma, tol) ==
    LET lo == IF L > tol THEN L - tol ELSE 0
        hi == L + tol
        q == N * Pi * sigma * sigma
    IN  lo * lo * 4 * eta <= q /\ q <= hi * hi * 4 * eta

\* the value of compute_box_length_2d(100, 0.68, 0.3) in main, line 117
MainHasBoxLength == pc \in {"main_print_box", "main_build", "main_print_positions",
                            "main_plot", "done"}

C9_FormulaAndFixture228 ==
    /\ (BoxCalled /\ boxCall.N > 0 /\ boxCall.eta > 0 /\ boxCall.eta < Scale
          /\ boxCall.sigma > 0)
        => /\ boxCall.out.status = "returned"
           /\ boxCall.out.value > 0
           /\ BoxWithin(boxCall.out.value, boxCall.N, boxCall.eta, boxCall.sigma, 2)
    /\ MainHasBoxLength => Abs(boxL - (228318 * Scale) \div 100000) <= 1

\* C9 as amended: the same, with compute_box_length_2d(100, 0.68, 0.3)
\* approximately 3.22412.
C9_FormulaAndFixture322 ==
    /\ (BoxCalled /\ boxCall.N > 0 /\ boxCall.eta > 0 /\ boxCall.eta < Scale
          /\ boxCall.sigma > 0)
        => /\ boxCall.out.status = "returned"
           /\ boxCall.out.value > 0
           /\ BoxWithin(boxCall.out.value, boxCall.N, boxCall.eta, boxCall.sigma, 2)
    /\ MainHasBoxLength
        => /\ Abs(boxL - (322412 * Scale) \div 100000) <= 1
           /\ BoxWithin(boxL, DemoN, DemoEta, DemoSigma, 2)

\* a valid input has returned a positive box length
C9_Witness ==
    /\ BoxCalled
    /\ boxCall.N = 3 /\ boxCall.eta = 68 /\ boxCall.sigma = 30
    /\ boxCall.out.status = "returned"
    /\ boxCall.out.value > 0

----------------------------------------------------------------------------
(* Properties of the lattice builders *)

SqCalled == sqCall.fn = "build_square_lattice_2d"

HexCalled == hexCall.fn = "build_hex_lattice_2d"

\* every coordinate c of p has 0 <= c < L
InBox(p, L) ==
    \A k \in 1..Len(p) : \A c \in 1..2 : 0 <= p[k][c] /\ p[k][c] < L

\* floor(L / (sigma + 0.5))^2
SquareCapacity(L, sigma) == (L \div (sigma + Pad)) * (L \div (sigma + Pad))

\* sqrt(3)/2 * sigma
RowSpacing(sigma) == FMul(FDiv(FSqrt(3 * Scale), 2 * Scale), sigma)

\* sigma/2 on odd rows, 0 on even rows
RowShift(iy, sigma) == IF iy % 2 = 1 THEN RoundDiv(sigma, 2) ELSE 0

\* the columns ix of row iy with ix * sigma + offset(iy) < L
RowColumns(iy, L, sigma) ==
    {ix \in 0..(L \div sigma) : ix * sigma + RowShift(iy, sigma) < L}

\* the sites (ix, iy) with iy * row_height < L and ix * sigma + offset(iy) < L
HexSites(L, sigma) ==
    {s \in (0..(L \div sigma)) \X (0..(L \div RowSpacing(sigma))) :
        /\ s[2] * RowSpacing(sigma) < L
        /\ s[1] \in RowColumns(s[2], L, sigma)}

HexCapacity(L, sigma) == Cardinality(HexSites(L, sigma))

RECURSIVE SitesBefore(_, _, _)
\* the number of sites in the rows before row iy
SitesBefore(iy, L, sigma) ==
    IF iy = 0 THEN 0
    ELSE Cardinality(RowColumns(iy - 1, L, sigma)) + SitesBefore(iy - 1, L, sigma)

C10_NeverMoreThanN ==
    /\ SqCalled
        => Len(sqCall.positions)
             = Min(sqCall.N, SquareCapacity(sqCall.L, sqCall.sigma))
    /\ HexCalled
        => Len(hexCall.out.positions)
             = Min(hexCall.N, HexCapacity(hexCall.L, hexCall.sigma))

C8_HexRowByRow ==
    HexCalled =>
        LET c == hexCall.out.coords
            L == hexCall.L
            sigma == hexCall.sigma
        IN  /\ Len(c) = Min(hexCall.N, HexCapacity(L, sigma))
            /\ \A k \in 1..Len(c) :
                  \E iy \in 0..(L \div RowSpacing(sigma)) :
                      LET ix == k - 1 - SitesBefore(iy, L, sigma)
                      IN  /\ ix \in RowColumns(iy, L, sigma)
                          /\ iy * RowSpacing(sigma) < L
                          /\ c[k] = <<ix * sigma + RowShift(iy, sigma),
                                      iy * RowSpacing(sigma)>>

\* the hex builder has generated an even row and the start of an odd row
C8_Witness ==
    /\ HexCalled
    /\ hexCall.L = 50 /\ hexCall.sigma = 30 /\ hexCall.N >= 4
    /\ hexCall.out.coords = << <<0, 0>>, <<30, 0>>, <<15, 26>>, <<45, 26>> >>

\* C6: with jitter j > 0 every coordinate after the displacement and before
\* the wrap is within j of its lattice coordinate; with jitter 0 nothing is
\* added.
C6_JitterBounded ==
    HexCalled =>
        LET c == hexCall.out.coords
            p == hexCall.out.jittered
        IN  /\ Len(p) = Len(c)
            /\ hexCall.jitter > 0
                => \A k \in 1..Len(c) : \A i \in 1..2 :
                      Abs(p[k][i] - c[k][i]) <= hexCall.jitter
            /\ hexCall.jitter = 0 => p = c

\* a jittered call has displaced a coordinate by the full -j and another by
\* less
C6_Witness ==
    /\ HexCalled
    /\ hexCall.jitter > 0
    /\ \E k \in 1..Len(hexCall.out.coords) : \E i \in 1..2 :
          hexCall.out.jittered[k][i] - hexCall.out.coords[k][i]
            = 0 - hexCall.jitter
    /\ \E k \in 1..Len(hexCall.out.coords) : \E i \in 1..2 :
          /\ hexCall.out.jittered[k][i] # hexCall.out.coords[k][i]
          /\ Abs(hexCall.out.jittered[k][i] - hexCall.out.coords[k][i])
               < hexCall.jitter

HexCalledAgain == hexAgain.fn = "build_hex_lattice_2d"

----------------------------------------------------------------------------
(* Properties of main *)

MainPastBranch == pc \in {"raised", "main_print_positions", "main_plot", "done"}

KnownKind == lattice \in {"hex", "square"}

====
